---- MODULE Spec2Model ----
(***************************************************************************)
(* Node/queue coordination layer of the Lavalink client: the Node Registry *)
(* (nodes), the Active-Loop Set (loops), the Connection Handle             *)
(* (socket_sender), the client mutex (inner), the per-guild queue          *)
(* dispatcher spawned by PlayParameters::queue and the public commands     *)
(* create_session, queue, start, skip, destroy, pause/resume, seek, stop,  *)
(* volume and the equalizer commands.                                      *)
(*                                                                         *)
(* Every DashMap access that takes an entry guard is one step; a guard     *)
(* that the code keeps across several statements stays held between two    *)
(* steps, so that try_get_mut of another task can observe Locked.          *)
(***************************************************************************)
EXTENDS Integers, Sequences, FiniteSets, TLC

\* ---------------------------------------------------------------- bounds
\* One guild, two caller tasks and two dispatcher slots.  Caller "a" issues every
\* command; caller "b" runs queue() concurrently with it.  MaxItems
\* bounds the number of tracks queue() accepts: they are numbered 1..MaxItems in order.
\* VolumeSpan is the top of the dense range of volumes given to volume().
Guilds == {1}
Callers == {"a", "b"}
Dispatchers == {1, 2}
MaxItems == 3
VolumeSpan == 1100

Commands(c) ==
    IF c = "a" THEN {"create_session", "queue", "skip", "destroy"}
    ELSE {"queue"}

VARIABLES
    nodes,      \* LavalinkClientInner.nodes : guild -> Node (present = has an entry)
    loops,      \* LavalinkClientInner.loops : set of guilds
    sender,     \* LavalinkClientInner.socket_sender is Some
    mutex,      \* holder of LavalinkClient.inner (parking_lot Mutex), <<>> when free
    guard,      \* holder of the DashMap entry guard of each guild, <<>> when free
    played,     \* per guild, the track of the last Play command a dispatcher transmitted
    wire,       \* per guild, the value of the last Pause command transmitted for the
                \* node (FALSE for a new node), and
                \* whether destroy() has cleared the session of the guild since
                \* the last track was accepted (and did not fail afterwards), and
                \* whether the Reactor has cleared now_playing since the last round
                \* of a dispatcher of the guild
    pc,         \* position of each caller task
    lv,         \* locals of each caller task
    last,       \* what the step just taken returned or transmitted (NoEvent otherwise)
    disp,       \* the dispatcher tasks spawned by queue(); failed is the track whose
                \* Play could not be sent in the round before
    nextItem    \* tracks are numbered in the order queue() accepts them

vars == <<nodes, loops, sender, mutex, guard, played, wire, pc, lv, last, disp, nextItem>>

\* ---------------------------------------------------------------- data
Free == <<>>
NoTrack == <<>>
Some(x) == <<x>>

NoNode ==
    [present |-> FALSE, now_playing |-> NoTrack, queue |-> <<>>,
     is_paused |-> FALSE, is_on_loops |-> FALSE]

DefaultNode ==
    [present |-> TRUE, now_playing |-> NoTrack, queue |-> <<>>,
     is_paused |-> FALSE, is_on_loops |-> FALSE]

CallerId(c) == <<"caller", c>>
DispId(d) == <<"dispatcher", d>>

\* no argument, no payload
NoArg == [none |-> TRUE]
NoPayload == [none |-> TRUE]

NoLocals ==
    [g |-> 0, item |-> 0, variant |-> "", val |-> NoTrack, op |-> "", pause |-> FALSE,
     arg |-> NoArg, payload |-> NoPayload, touched |-> FALSE]
NoEvent ==
    [task |-> "", op |-> "", g |-> 0, res |-> "", val |-> NoTrack, try |-> "", sent |-> "",
     payload |-> NoPayload]
Unborn == [pc |-> "unborn", g |-> 0, track |-> NoTrack, failed |-> NoTrack]
NoWire == [pause |-> FALSE, destroyed |-> FALSE, cleared |-> FALSE]

\* a try_get_mut that finds an entry for every guild
TryGetMutNeverAbsent(g) ==
    IF guard[g] # Free THEN "Locked" ELSE "Present"

\* a try_get_mut that overlooks the entry guard of another task
TryGetMutUnguarded(g) ==
    IF nodes[g].present THEN "Present" ELSE "Absent"

\* DashMap::try_get_mut
TryGetMut(g) ==
    IF guard[g] # Free THEN "Locked"
    ELSE IF nodes[g].present THEN "Present" ELSE "Absent"

\* a removal at the tail
DropLast(q) == IF q = <<>> THEN q ELSE SubSeq(q, 1, Len(q) - 1)

\* a removal that keeps the head
DropHeadKeeping(q) == q

\* Vec::remove(0) on a non-empty queue, nothing on an empty one
DropHead(q) == IF q = <<>> THEN q ELSE Tail(q)

\* the item at the tail of the queue
QueueLast(q) == q[Len(q)]

\* queue[0] of the dispatcher
QueueHead(q) == Head(q)

\* a dispatcher test that overlooks now_playing
MayPlayAnyTime(n) == n.queue # <<>>

\* the dispatcher's test before it played
MayPlay(n) == n.queue # <<>> /\ n.now_playing = NoTrack

\* the condition under which create_session inserts Node::default()
GatewayInserts(has) == has
SongbirdInserts(has) == ~has

Alive(d) == disp[d].pc \notin {"unborn", "dead"}
AliveFor(g) == {d \in Dispatchers : Alive(d) /\ disp[d].g = g}
Spawned == {d \in Dispatchers : disp[d].pc # "unborn"}

\* the call of caller c returns r
Return(c, r) ==
    /\ pc' = [pc EXCEPT ![c] = "idle"]
    /\ lv' = [lv EXCEPT ![c] = NoLocals]
    /\ last' = [r EXCEPT !.task = c]

\* the call of caller c goes on at label
Goto(c, label, locals) ==
    /\ pc' = [pc EXCEPT ![c] = label]
    /\ lv' = [lv EXCEPT ![c] = locals]
    /\ last' = NoEvent

Result(op, g, res) == [NoEvent EXCEPT !.op = op, !.g = g, !.res = res]

\* ------------------------------------------------ PlayParameters
\* the start and finish times (ms) and the replace flag a play builder is given
Requests == [start : {0, 5}, finish : {0, 7}, replace : BOOLEAN]

\* the parameters of the queue() call whose track is numbered i
Request(i) == [start |-> 5 * (i % 2), finish |-> 7 * ((i \div 2) % 2), replace |-> TRUE]

\* a queue item that ends at its finish time even when that is 0
QueueTrackEndingAtZero(track, p) ==
    [track |-> track, start_time |-> p.start, end_time |-> <<p.finish>>]

\* the Play payload of start()
StartPlay(track, p) ==
    [track |-> track,
     no_replace |-> ~p.replace,
     start_time |-> p.start,
     end_time |-> IF p.finish = 0 THEN <<>> ELSE <<p.finish>>]

\* the TrackQueue of queue() (the requester left out)
QueueTrack(track, p) ==
    [track |-> track,
     start_time |-> p.start,
     end_time |-> IF p.finish = 0 THEN <<>> ELSE <<p.finish>>]

\* the TrackQueue of to_track_queue() (the requester left out)
ToTrackQueue(track, p) ==
    [track |-> track,
     start_time |-> p.start,
     end_time |-> IF p.finish = 0 THEN <<>> ELSE <<p.finish>>]

\* the queue item that the number i stands for in a queue
Item(i) == QueueTrack(i, Request(i))

\* the Play payload the dispatcher builds from the queue item it took
DispatcherPlay(item) ==
    [track |-> item.track,
     no_replace |-> FALSE,
     start_time |-> item.start_time,
     end_time |-> item.end_time]

Init ==
    /\ nodes = [g \in Guilds |-> NoNode]
    /\ loops = {}
    /\ sender = FALSE
    /\ mutex = Free
    /\ guard = [g \in Guilds |-> Free]
    /\ played = [g \in Guilds |-> NoTrack]
    /\ wire = [g \in Guilds |-> NoWire]
    /\ pc = [c \in Callers |-> "idle"]
    /\ lv = [c \in Callers |-> NoLocals]
    /\ last = NoEvent
    /\ disp = [d \in Dispatchers |-> Unborn]
    /\ nextItem = 1

\* ------------------------------------------------ create_session (both variants)
\* the connection fields, then the client lock and the sender
CreateSession(c, g, variant, fieldsOk) ==
    /\ pc[c] = "idle"
    /\ "create_session" \in Commands(c)
    /\ variant = "songbird" => fieldsOk
    /\ IF ~fieldsOk
       THEN /\ Return(c, Result(variant, g, "MissingConnectionField"))
       ELSE /\ mutex = Free
            /\ IF sender
               THEN Goto(c, "cs_send", [NoLocals EXCEPT !.g = g, !.variant = variant])
               ELSE Return(c, Result(variant, g, "MissingLavalinkSocket"))
    /\ UNCHANGED <<nodes, loops, sender, mutex, guard, played, wire, disp, nextItem>>

\* SendOpcode::VoiceUpdate(payload).send(..).await?
CreateSessionSend(c) ==
    /\ pc[c] = "cs_send"
    /\ \E ok \in BOOLEAN :
        IF ok
        THEN /\ pc' = [pc EXCEPT ![c] = "cs_node"]
             /\ lv' = lv
             /\ last' = [NoEvent EXCEPT !.task = c, !.op = lv[c].variant,
                                         !.g = lv[c].g, !.sent = "VoiceUpdate"]
        ELSE Return(c, Result(lv[c].variant, lv[c].g, "SendError"))
    /\ UNCHANGED <<nodes, loops, sender, mutex, guard, played, wire, disp, nextItem>>

\* if [!]nodes.contains_key(..) { nodes.insert(.., Node::default()) }; Ok(())
CreateSessionNode(c) ==
    /\ pc[c] = "cs_node"
    /\ guard[lv[c].g] = Free
    /\ LET has == nodes[lv[c].g].present
           ins == IF lv[c].variant = "gateway"
                  THEN GatewayInserts(has) ELSE SongbirdInserts(has)
       IN /\ nodes' = IF ins THEN [nodes EXCEPT ![lv[c].g] = DefaultNode] ELSE nodes
          /\ wire' = IF ins THEN [wire EXCEPT ![lv[c].g].pause = FALSE] ELSE wire
    /\ Return(c, Result(lv[c].variant, lv[c].g, "Ok"))
    /\ UNCHANGED <<loops, sender, mutex, guard, played, disp, nextItem>>

\* ------------------------------------------------ PlayParameters::queue
\* queue() decides by the Active-Loop Set first, then by the node's flag
InLoops(g) == g \in loops

\* a push to the front of the queue
PushedFront(g, item) == [nodes EXCEPT ![g].queue = <<item>> \o @]

Pushed(g, item) == [nodes EXCEPT ![g].queue = Append(@, item)]

\* the wire history once queue() has pushed into the queue of g
Accepted(g, pushed) ==
    IF pushed THEN [wire EXCEPT ![g].destroyed = FALSE] ELSE wire

\* client.inner.lock(); loops.contains; try_get_mut (first branch) or
\* get_mut(..).unwrap() (second branch)
Queue(c, g) ==
    /\ pc[c] = "idle"
    /\ "queue" \in Commands(c)
    /\ mutex = Free
    /\ nextItem <= MaxItems
    /\ LET item == nextItem
           me == [NoLocals EXCEPT !.g = g, !.item = item]
       IN IF ~InLoops(g)
          THEN CASE TryGetMut(g) = "Present" /\ nodes[g].is_on_loops ->
                      /\ nodes' = Pushed(g, item)
                      /\ guard' = [guard EXCEPT ![g] = CallerId(c)]
                      /\ mutex' = CallerId(c)
                      /\ nextItem' = nextItem + 1
                      /\ Goto(c, "q_ret", me)
                 [] TryGetMut(g) = "Present" /\ ~nodes[g].is_on_loops ->
                      /\ Spawned # Dispatchers
                      /\ nodes' = [nodes EXCEPT ![g].is_on_loops = TRUE]
                      /\ guard' = [guard EXCEPT ![g] = CallerId(c)]
                      /\ mutex' = CallerId(c)
                      /\ nextItem' = nextItem + 1
                      /\ Goto(c, "q_flag", me)
                 [] OTHER ->
                      /\ Return(c, [Result("queue", g, "NoSessionPresent")
                                      EXCEPT !.try = TryGetMut(g)])
                      /\ UNCHANGED <<nodes, guard, mutex, nextItem>>
          ELSE CASE guard[g] # Free ->
                      /\ mutex' = CallerId(c)
                      /\ nextItem' = nextItem + 1
                      /\ Goto(c, "q_wait", me)
                      /\ UNCHANGED <<nodes, guard>>
                 [] guard[g] = Free /\ nodes[g].present ->
                      /\ nodes' = Pushed(g, item)
                      /\ guard' = [guard EXCEPT ![g] = CallerId(c)]
                      /\ mutex' = CallerId(c)
                      /\ nextItem' = nextItem + 1
                      /\ Goto(c, "q_ret", me)
                 [] OTHER ->
                      /\ Return(c, Result("queue", g, "Panic"))
                      /\ UNCHANGED <<nodes, guard, mutex, nextItem>>
    /\ wire' = Accepted(g, nodes'[g].queue # nodes[g].queue)
    /\ UNCHANGED <<loops, sender, played, disp>>

\* the second branch's get_mut(..).unwrap(), once the entry is released
QueueWait(c) ==
    /\ pc[c] = "q_wait"
    /\ guard[lv[c].g] = Free
    /\ IF nodes[lv[c].g].present
       THEN /\ nodes' = Pushed(lv[c].g, lv[c].item)
            /\ guard' = [guard EXCEPT ![lv[c].g] = CallerId(c)]
            /\ mutex' = mutex
            /\ Goto(c, "q_ret", lv[c])
       ELSE /\ mutex' = Free
            /\ Return(c, Result("queue", lv[c].g, "Panic"))
            /\ UNCHANGED <<nodes, guard>>
    /\ wire' = Accepted(lv[c].g, nodes'[lv[c].g].queue # nodes[lv[c].g].queue)
    /\ UNCHANGED <<loops, sender, played, disp, nextItem>>

\* return Ok(()) of a branch that spawns nothing: the guards drop
QueueReturn(c) ==
    /\ pc[c] = "q_ret"
    /\ guard' = [guard EXCEPT ![lv[c].g] = Free]
    /\ mutex' = Free
    /\ Return(c, Result("queue", lv[c].g, "Ok"))
    /\ UNCHANGED <<nodes, loops, sender, played, wire, disp, nextItem>>

\* end of the if-let (the entry guard drops); loops.insert(guild_id)
QueueInsertLoop(c) ==
    /\ pc[c] = "q_flag"
    /\ guard' = [guard EXCEPT ![lv[c].g] = Free]
    /\ loops' = loops \cup {lv[c].g}
    /\ Goto(c, "q_push", lv[c])
    /\ UNCHANGED <<nodes, sender, mutex, played, wire, disp, nextItem>>

\* nodes.get_mut(&guild_id).unwrap(); node.queue.push(track)
QueuePush(c) ==
    /\ pc[c] = "q_push"
    /\ guard[lv[c].g] = Free
    /\ IF nodes[lv[c].g].present
       THEN /\ nodes' = Pushed(lv[c].g, lv[c].item)
            /\ guard' = [guard EXCEPT ![lv[c].g] = CallerId(c)]
            /\ mutex' = mutex
            /\ Goto(c, "q_spawn", lv[c])
       ELSE /\ mutex' = Free
            /\ Return(c, Result("queue", lv[c].g, "Panic"))
            /\ UNCHANGED <<nodes, guard>>
    /\ wire' = Accepted(lv[c].g, nodes'[lv[c].g].queue # nodes[lv[c].g].queue)
    /\ UNCHANGED <<loops, sender, played, disp, nextItem>>

\* the guards drop; tokio::spawn of the dispatcher; return Ok(())
QueueSpawn(c) ==
    /\ pc[c] = "q_spawn"
    /\ guard' = [guard EXCEPT ![lv[c].g] = Free]
    /\ mutex' = Free
    /\ LET d == CHOOSE x \in Dispatchers :
                    /\ disp[x].pc = "unborn"
                    /\ \A y \in Dispatchers : disp[y].pc = "unborn" => x <= y
       IN disp' = [disp EXCEPT ![d] = [pc |-> "t_nodes", g |-> lv[c].g,
                                        track |-> NoTrack, failed |-> NoTrack]]
    /\ Return(c, [Result("queue", lv[c].g, "Ok") EXCEPT !.try = "spawned"])
    /\ UNCHANGED <<nodes, loops, sender, played, wire, nextItem>>

\* ------------------------------------------------ LavalinkClient::skip
Skip(c, g) ==
    /\ pc[c] = "idle"
    /\ "skip" \in Commands(c)
    /\ mutex = Free
    /\ IF TryGetMut(g) = "Present"
       THEN /\ nodes' = [nodes EXCEPT ![g].now_playing = NoTrack,
                                      ![g].queue = DropHead(@)]
            /\ guard' = [guard EXCEPT ![g] = CallerId(c)]
            /\ mutex' = CallerId(c)
            /\ Goto(c, "s_ret",
                    [NoLocals EXCEPT !.g = g,
                        !.val = IF nodes[g].queue = <<>> THEN NoTrack
                                ELSE Some(Head(nodes[g].queue))])
       ELSE /\ Return(c, [Result("skip", g, "None") EXCEPT !.try = TryGetMut(g)])
            /\ UNCHANGED <<nodes, guard, mutex>>
    /\ UNCHANGED <<loops, sender, played, wire, disp, nextItem>>

\* skip returns; the entry guard and the client lock drop
SkipReturn(c) ==
    /\ pc[c] = "s_ret"
    /\ guard' = [guard EXCEPT ![lv[c].g] = Free]
    /\ mutex' = Free
    /\ Return(c, [Result("skip", lv[c].g, IF lv[c].val = NoTrack THEN "None" ELSE "Some")
                    EXCEPT !.val = lv[c].val, !.try = "Present"])
    /\ UNCHANGED <<nodes, loops, sender, played, wire, disp, nextItem>>

\* ------------------------------------------------ LavalinkClient::destroy
Destroy(c, g) ==
    /\ pc[c] = "idle"
    /\ "destroy" \in Commands(c)
    /\ mutex = Free
    /\ IF sender
       THEN Goto(c, "d_node", [NoLocals EXCEPT !.g = g])
       ELSE Return(c, Result("destroy", g, "MissingLavalinkSocket"))
    /\ UNCHANGED <<nodes, loops, sender, mutex, guard, played, wire, disp, nextItem>>

\* a destroy that removes the session's entries instead of keeping them
DestroyNodeRemoving(c) ==
    /\ pc[c] = "d_node"
    /\ guard[lv[c].g] = Free
    /\ nodes' = [nodes EXCEPT ![lv[c].g] = NoNode]
    /\ loops' = loops \ {lv[c].g}
    /\ Goto(c, "d_send", [lv[c] EXCEPT !.touched = nodes[lv[c].g].present])
    /\ wire' = [wire EXCEPT ![lv[c].g].destroyed = TRUE]
    /\ UNCHANGED <<sender, mutex, guard, played, disp, nextItem>>

\* if let Some(mut node) = nodes.get_mut(..) { now_playing = None; queue.remove(0) }
DestroyNode(c) ==
    /\ pc[c] = "d_node"
    /\ guard[lv[c].g] = Free
    /\ IF nodes[lv[c].g].present
       THEN /\ nodes' = [nodes EXCEPT ![lv[c].g].now_playing = NoTrack,
                                      ![lv[c].g].queue = DropHead(@)]
            /\ guard' = [guard EXCEPT ![lv[c].g] = CallerId(c)]
            /\ Goto(c, "d_held",
                    [lv[c] EXCEPT !.touched = nodes[lv[c].g].now_playing # NoTrack
                                              \/ nodes[lv[c].g].queue # <<>>])
       ELSE /\ Goto(c, "d_send", lv[c])
            /\ UNCHANGED <<nodes, guard>>
    /\ wire' = [wire EXCEPT ![lv[c].g].destroyed = TRUE]
    /\ UNCHANGED <<loops, sender, mutex, played, disp, nextItem>>

\* the entry guard drops at the end of the if-let
DestroyRelease(c) ==
    /\ pc[c] = "d_held"
    /\ guard' = [guard EXCEPT ![lv[c].g] = Free]
    /\ Goto(c, "d_send", lv[c])
    /\ UNCHANGED <<nodes, loops, sender, mutex, played, wire, disp, nextItem>>

\* SendOpcode::Destroy.send(..).await?; Ok(())
DestroySend(c) ==
    /\ pc[c] = "d_send"
    /\ \E ok \in BOOLEAN :
        IF ok
        THEN /\ Return(c, [Result("destroy", lv[c].g, "Ok") EXCEPT !.sent = "Destroy"])
             /\ wire' = wire
        ELSE /\ Return(c, Result("destroy", lv[c].g, "SendError"))
             /\ wire' = [wire EXCEPT ![lv[c].g].destroyed = FALSE]
    /\ UNCHANGED <<nodes, loops, sender, mutex, guard, played, disp, nextItem>>

\* ------------------------------------------------ PlayParameters::start
\* self.client.inner.lock(); the sender, or MissingLavalinkSocket; the guard `client`
\* lives to the end of the function
StartWith(c, g, p) ==
    /\ pc[c] = "idle"
    /\ mutex = Free
    /\ IF sender
       THEN /\ mutex' = CallerId(c)
            /\ Goto(c, "st_send", [NoLocals EXCEPT !.g = g, !.op = "start", !.arg = p,
                                                    !.payload = StartPlay(0, p)])
       ELSE /\ mutex' = mutex
            /\ Return(c, Result("start", g, "MissingLavalinkSocket"))
    /\ UNCHANGED <<nodes, loops, sender, guard, played, wire, disp, nextItem>>

Start(c, g) == \E p \in Requests : StartWith(c, g, p)

\* SendOpcode::Play(payload).send(..).await?; Ok(()): the client lock drops
StartSend(c) ==
    /\ pc[c] = "st_send"
    /\ mutex' = Free
    /\ \E ok \in BOOLEAN :
        IF ok
        THEN Return(c, [Result("start", lv[c].g, "Ok") EXCEPT !.sent = "Play",
                                                              !.payload = lv[c].payload])
        ELSE Return(c, Result("start", lv[c].g, "SendError"))
    /\ UNCHANGED <<nodes, loops, sender, guard, played, wire, disp, nextItem>>

\* ------------------------------------------------ PlayParameters::to_track_queue
ToTrackQueueCall(c, p) ==
    /\ pc[c] = "idle"
    /\ Return(c, [Result("to_track_queue", 0, "Ok") EXCEPT !.payload = ToTrackQueue(0, p)])
    /\ UNCHANGED <<nodes, loops, sender, mutex, guard, played, wire, disp, nextItem>>

\* ------------------------------------------------ stop, seek, volume, equalize_*
SendOps ==
    {"stop", "seek", "volume",
     "equalize_all", "equalize_dynamic", "equalize_band", "equalize_reset"}

\* the SendOpcode of each command
Opcode(op) ==
    CASE op = "stop" -> "Stop"
      [] op = "seek" -> "Seek"
      [] op = "volume" -> "Volume"
      [] OTHER -> "Equalizer"

\* the largest volume that is sent, and the largest u16
MaxVolume == 1000
U16Max == 65535

\* the number of equalizer bands, and the last of them
BandCount == 15
LastBand == 14

Min(a, b) == IF a < b THEN a ELSE b
Max(a, b) == IF a > b THEN a ELSE b

\* a volume that is never cut down
GoodVolumeUncut(volume) == volume

\* let good_volume = max(min(volume, 1000), 0)
GoodVolume(volume) == Max(Min(volume, MaxVolume), 0)

\* a numbering of the bands that starts at one
AsU8FromOne(n) == n + 1

\* index as u8
AsU8(n) == n % 256

\* bands.iter().enumerate().map(|(index, i)| Band { band: index as u8, gain: *i })
EqualizeAllBands(gains) ==
    [i \in 1..Len(gains) |-> [band |-> AsU8(i - 1), gain |-> gains[i]]]

\* (0..=14).map(|i| Band { band: i as u8, gain: 0. })
EqualizeResetBands ==
    [i \in 1..(LastBand + 1) |-> [band |-> AsU8(i - 1), gain |-> 0]]

\* u16 volumes around the cut
Volumes == {0, 1, 999, 1000, 1001, 5000, 65535}

\* [f64; 15] gains, scaled to integers (hundredths)
GainArrays ==
    { [i \in 1..BandCount |-> 0],
      [i \in 1..BandCount |-> 5 * i - 25],
      [i \in 1..BandCount |-> IF i = BandCount THEN 100 ELSE -25] }

\* the arguments each command is called with
Args(op) ==
    CASE op = "volume" -> Volumes
      [] op = "seek" -> {0, 1500}
      [] op = "equalize_all" -> GainArrays
      [] op = "equalize_dynamic" -> {<<[band |-> 3, gain |-> 25], [band |-> 0, gain |-> -25]>>}
      [] op = "equalize_band" -> {[band |-> 3, gain |-> 25]}
      [] OTHER -> {NoArg}

\* the payload each command builds from its argument
Payload(op, a) ==
    CASE op = "volume" -> [volume |-> GoodVolume(a)]
      [] op = "seek" -> [position |-> a]
      [] op = "equalize_all" -> [bands |-> EqualizeAllBands(a)]
      [] op = "equalize_dynamic" -> [bands |-> a]
      [] op = "equalize_band" -> [bands |-> <<a>>]
      [] op = "equalize_reset" -> [bands |-> EqualizeResetBands]
      [] OTHER -> NoPayload

\* { let client = self.inner.lock(); socket = ..ok_or(MissingLavalinkSocket)?.clone() }
CommandWith(c, g, op, a) ==
    /\ pc[c] = "idle"
    /\ mutex = Free
    /\ IF sender
       THEN Goto(c, "c_send", [NoLocals EXCEPT !.g = g, !.op = op, !.arg = a,
                                               !.payload = Payload(op, a)])
       ELSE Return(c, Result(op, g, "MissingLavalinkSocket"))
    /\ UNCHANGED <<nodes, loops, sender, mutex, guard, played, wire, disp, nextItem>>

Command(c, g, op) == \E a \in Args(op) : CommandWith(c, g, op, a)

\* SendOpcode::..(payload).send(guild_id, socket).await?; Ok(())
CommandSend(c) ==
    /\ pc[c] = "c_send"
    /\ \E ok \in BOOLEAN :
        IF ok
        THEN Return(c, [Result(lv[c].op, lv[c].g, "Ok") EXCEPT !.sent = Opcode(lv[c].op),
                                                                !.payload = lv[c].payload])
        ELSE Return(c, Result(lv[c].op, lv[c].g, "SendError"))
    /\ UNCHANGED <<nodes, loops, sender, mutex, guard, played, wire, disp, nextItem>>

\* ------------------------------------------------ LavalinkClient::set_pause
\* let nodes = self.nodes().await : the client lock, taken and released
SetPause(c, g, pause) ==
    /\ pc[c] = "idle"
    /\ mutex = Free
    /\ Goto(c, "p_try", [NoLocals EXCEPT !.g = g, !.op = "set_pause", !.pause = pause])
    /\ UNCHANGED <<nodes, loops, sender, mutex, guard, played, wire, disp, nextItem>>

\* if let TryResult::Present(mut n) = node { n.is_paused = pause }
\* else { return Err(ChannelSendError) }
SetPauseNode(c) ==
    /\ pc[c] = "p_try"
    /\ IF TryGetMut(lv[c].g) = "Present"
       THEN /\ nodes' = [nodes EXCEPT ![lv[c].g].is_paused = lv[c].pause]
            /\ guard' = [guard EXCEPT ![lv[c].g] = CallerId(c)]
            /\ Goto(c, "p_held",
                    [lv[c] EXCEPT !.touched = nodes[lv[c].g].is_paused # lv[c].pause])
       ELSE /\ Return(c, [Result("set_pause", lv[c].g, "ChannelSendError")
                            EXCEPT !.try = TryGetMut(lv[c].g)])
            /\ UNCHANGED <<nodes, guard>>
    /\ UNCHANGED <<loops, sender, mutex, played, wire, disp, nextItem>>

\* the entry guard drops at the end of the block
SetPauseRelease(c) ==
    /\ pc[c] = "p_held"
    /\ guard' = [guard EXCEPT ![lv[c].g] = Free]
    /\ Goto(c, "p_lock", lv[c])
    /\ UNCHANGED <<nodes, loops, sender, mutex, played, wire, disp, nextItem>>

\* { let client = self.inner.lock(); socket = ..ok_or(MissingLavalinkSocket)?.clone() }
SetPauseSocket(c) ==
    /\ pc[c] = "p_lock"
    /\ mutex = Free
    /\ IF sender
       THEN Goto(c, "p_send", lv[c])
       ELSE Return(c, Result("set_pause", lv[c].g, "MissingLavalinkSocket"))
    /\ UNCHANGED <<nodes, loops, sender, mutex, guard, played, wire, disp, nextItem>>

\* SendOpcode::Pause(payload).send(guild_id, socket).await?; Ok(())
SetPauseSend(c) ==
    /\ pc[c] = "p_send"
    /\ \E ok \in BOOLEAN :
        IF ok
        THEN /\ Return(c, [Result("set_pause", lv[c].g, "Ok") EXCEPT !.sent = "Pause"])
             /\ wire' = [wire EXCEPT ![lv[c].g].pause = lv[c].pause]
        ELSE /\ Return(c, Result("set_pause", lv[c].g, "SendError"))
             /\ wire' = wire
    /\ UNCHANGED <<nodes, loops, sender, mutex, guard, played, disp, nextItem>>

\* ------------------------------------------------ the dispatcher of queue()
\* client_clone.nodes().await : the client lock, taken and released
DispatcherNodes(d) ==
    /\ disp[d].pc = "t_nodes"
    /\ mutex = Free
    /\ disp' = [disp EXCEPT ![d].pc = "t_try"]
    /\ last' = NoEvent
    /\ UNCHANGED <<nodes, loops, sender, mutex, guard, played, wire, pc, lv, nextItem>>

\* if let TryResult::Present(mut node) = ..try_get_mut(&guild_id) {..} else { break }
DispatcherTick(d) ==
    /\ disp[d].pc = "t_try"
    /\ LET g == disp[d].g
       IN IF TryGetMut(g) = "Present"
          THEN /\ guard' = [guard EXCEPT ![g] = DispId(d)]
               /\ IF MayPlay(nodes[g])
                  THEN /\ nodes' = [nodes EXCEPT
                                      ![g].now_playing = Some(QueueHead(nodes[g].queue))]
                       /\ disp' = [disp EXCEPT ![d].pc = "t_held",
                                      ![d].track = Some(QueueHead(nodes[g].queue)),
                                      ![d].failed = NoTrack]
                  ELSE /\ nodes' = nodes
                       /\ disp' = [disp EXCEPT ![d].pc = "t_held", ![d].failed = NoTrack]
          ELSE /\ disp' = [disp EXCEPT ![d].pc = "dead", ![d].failed = NoTrack]
               /\ UNCHANGED <<nodes, guard>>
    /\ wire' = [wire EXCEPT ![disp[d].g].cleared = FALSE]
    /\ last' = NoEvent
    /\ UNCHANGED <<loops, sender, mutex, played, pc, lv, nextItem>>

\* a dispatcher that keeps the entry until it has the client mutex of line 265
DispatcherReleaseLocked(d) ==
    /\ disp[d].pc = "t_held"
    /\ mutex = Free
    /\ guard' = [guard EXCEPT ![disp[d].g] = Free]
    /\ disp' = [disp EXCEPT ![d].pc = IF disp[d].track = NoTrack
                                      THEN "t_nodes" ELSE "t_send"]
    /\ last' = NoEvent
    /\ UNCHANGED <<nodes, loops, sender, mutex, played, wire, pc, lv, nextItem>>

\* drop(node), or the end of the if-let; without a track: sleep, next round
DispatcherRelease(d) ==
    /\ disp[d].pc = "t_held"
    /\ guard' = [guard EXCEPT ![disp[d].g] = Free]
    /\ disp' = [disp EXCEPT ![d].pc = IF disp[d].track = NoTrack
                                      THEN "t_nodes" ELSE "t_send"]
    /\ last' = NoEvent
    /\ UNCHANGED <<nodes, loops, sender, mutex, played, wire, pc, lv, nextItem>>

\* client_lock.socket_sender.read().clone(); SendOpcode::Play(payload).send(..).await;
\* a missing sender and a failed send are logged; sleep, next round
DispatcherSend(d) ==
    /\ disp[d].pc = "t_send"
    /\ mutex = Free
    /\ \E ok \in BOOLEAN :
        IF sender /\ ok
        THEN /\ played' = [played EXCEPT ![disp[d].g] = disp[d].track]
             /\ disp' = [disp EXCEPT ![d].pc = "t_nodes", ![d].track = NoTrack]
             /\ last' = [NoEvent EXCEPT !.g = disp[d].g, !.sent = "Play",
                                        !.payload = DispatcherPlay(Item(disp[d].track[1]))]
        ELSE /\ played' = played
             /\ disp' = [disp EXCEPT ![d].pc = "t_nodes", ![d].track = NoTrack,
                                      ![d].failed = disp[d].track]
             /\ last' = NoEvent
    /\ UNCHANGED <<nodes, loops, sender, mutex, guard, wire, pc, lv, nextItem>>

\* ------------------------------------------------ the Event Reactor
Played(g) == played[g] # NoTrack

\* TrackEnd / TrackException / TrackStuck for guild g
ReactorTrackEvent(g, finished) ==
    /\ Played(g)
    /\ guard[g] = Free
    /\ nodes' = IF nodes[g].present
                THEN [nodes EXCEPT ![g].now_playing = NoTrack,
                                   ![g].queue = IF finished THEN DropHead(@) ELSE @]
                ELSE nodes
    /\ wire' = [wire EXCEPT ![g].cleared = nodes[g].present]
    /\ last' = NoEvent
    /\ UNCHANGED <<loops, sender, mutex, guard, played, pc, lv, disp, nextItem>>

\* the socket session is established: the sender is installed
ReactorConnect ==
    /\ ~sender
    /\ sender' = TRUE
    /\ last' = NoEvent
    /\ UNCHANGED <<nodes, loops, mutex, guard, played, wire, pc, lv, disp, nextItem>>

\* connection loss: the sender is cleared
ReactorDisconnect ==
    /\ sender
    /\ sender' = FALSE
    /\ last' = NoEvent
    /\ UNCHANGED <<nodes, loops, mutex, guard, played, wire, pc, lv, disp, nextItem>>

\* ------------------------------------------------ the owner's clean-up
\* lavalink_client.nodes().await.remove(&guild_id)
RemoveNode(g) ==
    /\ nodes[g].present
    /\ guard[g] = Free
    /\ nodes' = [nodes EXCEPT ![g] = NoNode]
    /\ wire' = [wire EXCEPT ![g] = NoWire]
    /\ last' = NoEvent
    /\ UNCHANGED <<loops, sender, mutex, guard, played, pc, lv, disp, nextItem>>

\* lavalink_client.loops().await.remove(&guild_id)
RemoveLoop(g) ==
    /\ g \in loops
    /\ loops' = loops \ {g}
    /\ last' = NoEvent
    /\ UNCHANGED <<nodes, sender, mutex, guard, played, wire, pc, lv, disp, nextItem>>

\* ------------------------------------------------ specifications
\* the steps of caller c, call by call
SessionCall(c) ==
    \/ \E g \in Guilds, variant \in {"gateway", "songbird"}, fieldsOk \in BOOLEAN :
            CreateSession(c, g, variant, fieldsOk)
    \/ CreateSessionSend(c)
    \/ CreateSessionNode(c)

QueueCall(c) ==
    \/ \E g \in Guilds : Queue(c, g)
    \/ QueueWait(c)
    \/ QueueReturn(c)
    \/ QueueInsertLoop(c)
    \/ QueuePush(c)
    \/ QueueSpawn(c)

SkipCall(c) ==
    \/ \E g \in Guilds : Skip(c, g)
    \/ SkipReturn(c)

DestroyCall(c) ==
    \/ \E g \in Guilds : Destroy(c, g)
    \/ DestroyNode(c)
    \/ DestroyRelease(c)
    \/ DestroySend(c)

CallerStep ==
    \E c \in Callers : SessionCall(c) \/ QueueCall(c) \/ SkipCall(c) \/ DestroyCall(c)

DispatcherStep ==
    \E d \in Dispatchers :
        \/ DispatcherNodes(d)
        \/ DispatcherTick(d)
        \/ DispatcherRelease(d)
        \/ DispatcherSend(d)

ReactorStep ==
    \/ \E g \in Guilds, finished \in BOOLEAN : ReactorTrackEvent(g, finished)
    \/ ReactorConnect
    \/ ReactorDisconnect

OwnerStep ==
    \/ \E g \in Guilds : RemoveNode(g)
    \/ \E g \in Guilds : RemoveLoop(g)

Next == CallerStep \/ DispatcherStep \/ ReactorStep \/ OwnerStep

Spec == Init /\ [][Next]_vars

\* the same program when its owner never touches nodes() and loops() directly
NextNoOwner == CallerStep \/ DispatcherStep \/ ReactorStep

SpecNoOwner == Init /\ [][NextNoOwner]_vars

\* ------------------------------------------------ the commands
StartCall(c) ==
    \/ \E g \in Guilds : Start(c, g)
    \/ StartSend(c)

SendCall(c) ==
    \/ \E g \in Guilds, op \in SendOps : Command(c, g, op)
    \/ CommandSend(c)

PauseCall(c) ==
    \/ \E g \in Guilds, pause \in BOOLEAN : SetPause(c, g, pause)
    \/ SetPauseNode(c)
    \/ SetPauseRelease(c)
    \/ SetPauseSocket(c)
    \/ SetPauseSend(c)

\* the commands that go straight to the Connection Handle, with create_session,
\* destroy(), the connection going up and down and the owner's nodes().remove
NextCommands ==
    \/ \E c \in Callers :
          SessionCall(c) \/ DestroyCall(c) \/ StartCall(c) \/ SendCall(c) \/ PauseCall(c)
    \/ ReactorConnect
    \/ ReactorDisconnect
    \/ \E g \in Guilds : RemoveNode(g)

SpecCommands == Init /\ [][NextCommands]_vars

\* the play builder: start(), to_track_queue(), queue() and its dispatcher
BuilderCall(c) ==
    \/ SessionCall(c)
    \/ QueueCall(c)
    \/ StartCall(c)
    \/ \E p \in Requests : ToTrackQueueCall(c, p)

NextPlay ==
    \/ \E c \in Callers : BuilderCall(c)
    \/ DispatcherStep
    \/ ReactorStep

SpecPlay == Init /\ [][NextPlay]_vars

\* volume() called by one caller with every volume up to VolumeSpan, with 5000 and
\* with the largest u16, the connection going up and down
VolumeRange == (0..VolumeSpan) \cup {5000, U16Max}

VolumeCall(c) ==
    \/ \E g \in Guilds, volume \in VolumeRange : CommandWith(c, g, "volume", volume)
    \/ CommandSend(c)

NextVolume ==
    \/ VolumeCall("a")
    \/ ReactorConnect
    \/ ReactorDisconnect

SpecVolume == Init /\ [][NextVolume]_vars

\* every operation that takes the client mutex or the guard of a registry entry:
\* create_session, queue(), skip() and destroy() of one caller beside start() and
\* pause()/resume() of the other, the dispatchers and the Reactor
NextLocks ==
    \/ SessionCall("a") \/ QueueCall("a") \/ SkipCall("a") \/ DestroyCall("a")
    \/ (\E g \in Guilds : StartWith("b", g, Request(1))) \/ StartSend("b")
    \/ PauseCall("b")
    \/ DispatcherStep
    \/ ReactorStep

SpecLocks == Init /\ [][NextLocks]_vars

\* the dispatcher beside skip() and destroy(): one caller with create_session,
\* queue(), skip() and destroy(), the dispatchers, the connection going up and down
NextRace ==
    \/ SessionCall("a") \/ QueueCall("a") \/ SkipCall("a") \/ DestroyCall("a")
    \/ DispatcherStep
    \/ ReactorConnect
    \/ ReactorDisconnect

SpecRace == Init /\ [][NextRace]_vars

\* ------------------------------------------------ fair scheduling
\* The runtime runs every spawned task and every call in progress: a dispatcher
\* round comes after its sleep, a call that has started goes on to its return (the
\* client mutex is eventually fair), and the server ends the track it was told to play.
DispatcherRound(d) ==
    DispatcherNodes(d) \/ DispatcherTick(d) \/ DispatcherRelease(d) \/ DispatcherSend(d)

CallInProgress(c) ==
    \/ CreateSessionSend(c) \/ CreateSessionNode(c)
    \/ QueueWait(c) \/ QueueReturn(c) \/ QueueInsertLoop(c) \/ QueuePush(c) \/ QueueSpawn(c)
    \/ SkipReturn(c)
    \/ DestroyNode(c) \/ DestroyRelease(c) \/ DestroySend(c)

\* TrackEnd for the track that the last Play started
PlayedTrackEnds(g) ==
    /\ nodes[g].now_playing # NoTrack
    /\ played[g] = nodes[g].now_playing
    /\ ReactorTrackEvent(g, TRUE)

Fairness ==
    /\ \A d \in Dispatchers : SF_vars(DispatcherRound(d))
    /\ \A c \in Callers : SF_vars(CallInProgress(c))
    /\ \A g \in Guilds : WF_vars(PlayedTrackEnds(g))

\* the session of caller "a" with fair scheduling: create_session, queue(), skip()
\* and destroy() of one caller, the dispatchers, the Reactor and the owner's
\* nodes().remove
NextFair ==
    \/ SessionCall("a") \/ QueueCall("a") \/ SkipCall("a") \/ DestroyCall("a")
    \/ DispatcherStep
    \/ ReactorStep
    \/ \E g \in Guilds : RemoveNode(g)

SpecFair == Init /\ [][NextFair]_vars /\ Fairness

\* ================================================================ claims
Variants == {"gateway", "songbird"}

\* a queue() call is between its first and its last step for guild g
QueueRunning(g) ==
    \E c \in Callers : pc[c] \in {"q_flag", "q_push", "q_spawn", "q_ret", "q_wait"}
                       /\ lv[c].g = g

\* C1: whenever guild g has no Node, in the Active-Loop Set or not, queue() for g
\* returns NoSessionPresent, spawns no dispatcher and leaves the Node Registry and
\* the Active-Loop Set as they were.
C1_NoSessionPresent ==
    [][\A c \in Callers, g \in Guilds :
          (Queue(c, g) /\ ~nodes[g].present)
              => /\ last'.res = "NoSessionPresent"
                 /\ UNCHANGED <<nodes, loops, disp>>]_vars

\* C2: right after create_session for g has returned Ok, the first queue() for g
\* takes the spawning branch, and when it returns exactly one dispatcher is alive for
\* g, the node's is_on_loops is set and g is in the Active-Loop Set; a queue() that
\* starts while a dispatcher is alive for g spawns nothing and appends its track.
C2_FirstQueueSpawnsOne ==
    [][\A c \in Callers, g \in Guilds :
          /\ (/\ Queue(c, g)
              /\ nextItem = 1
              /\ last.op \in Variants /\ last.res = "Ok" /\ last.g = g)
                => /\ pc'[c] = "q_flag"
                   /\ nodes'[g].is_on_loops
          /\ (QueueSpawn(c) /\ lv[c].g = g)
                => /\ Cardinality({d \in Dispatchers :
                                     disp'[d].pc \notin {"unborn", "dead"}
                                     /\ disp'[d].g = g}) = 1
                   /\ nodes'[g].present /\ nodes'[g].is_on_loops
                   /\ g \in loops'
          /\ (Queue(c, g) /\ AliveFor(g) # {} /\ last'.res = "")
                => /\ pc'[c] # "q_flag"
                   /\ pc'[c] = "q_ret" => nodes'[g].queue = Append(nodes[g].queue, nextItem)
          ]_vars

\* C3: queue() calls for the same guild are serialised by the client lock, and of the
\* calls that find the Node with is_on_loops = false exactly one spawns a dispatcher:
\* the call that finds the flag unset (and the Node not held by another task) sets it
\* and goes on to spawn, a call that finds it set spawns nothing, and every call that
\* returns Ok has appended its track.
C3_OneSpawnPerFlag ==
    [][\A c \in Callers, g \in Guilds :
          /\ (/\ Queue(c, g)
              /\ nodes[g].present /\ guard[g] = Free)
                => /\ mutex' = CallerId(c)
                   /\ (~nodes[g].is_on_loops) <=> (pc'[c] = "q_flag")
          /\ ((QueueReturn(c) \/ QueueSpawn(c)) /\ lv[c].g = g /\ nodes[g].present)
                => \E i \in 1..Len(nodes[g].queue) : nodes[g].queue[i] = lv[c].item
          ]_vars

\* C4: whenever the Node of g has is_on_loops set (and no queue() call for g is in
\* the middle of its critical section), exactly one dispatcher task is alive for g.
C4_OneDispatcher ==
    \A g \in Guilds :
        (nodes[g].present /\ nodes[g].is_on_loops /\ ~QueueRunning(g))
            => Cardinality(AliveFor(g)) = 1

\* C5: a dispatcher tick takes a track to play only if, at that tick, the queue is
\* non-empty and now_playing is None, and it sets now_playing to the head in the same
\* step; a tick that finds now_playing set takes nothing and leaves the node alone;
\* a Play goes out only for the track a tick has taken.
C5_PlayOnlyWhenIdle ==
    [][/\ \A d \in Dispatchers :
            DispatcherTick(d) =>
                LET g == disp[d].g
                IN /\ disp'[d].track # NoTrack
                        => /\ nodes[g].present /\ guard[g] = Free
                           /\ nodes[g].queue # <<>>
                           /\ nodes[g].now_playing = NoTrack
                           /\ nodes'[g].now_playing = Some(Head(nodes[g].queue))
                           /\ disp'[d].track = Some(Head(nodes[g].queue))
                   /\ nodes[g].now_playing # NoTrack
                        => /\ disp'[d].track = NoTrack
                           /\ nodes' = nodes
       /\ played' # played
            => \E d \in Dispatchers :
                  /\ disp[d].pc = "t_send"
                  /\ disp[d].track # NoTrack
                  /\ played' = [played EXCEPT ![disp[d].g] = disp[d].track]
                  /\ disp'[d].track = NoTrack
      ]_vars

\* a tick has just found the head still playing and taken nothing
C5_Witness ==
    \E d \in Dispatchers :
        /\ disp[d].pc = "t_held" /\ disp[d].track = NoTrack
        /\ nodes[disp[d].g].queue # <<>>
        /\ nodes[disp[d].g].now_playing = Some(Head(nodes[disp[d].g].queue))
        /\ played[disp[d].g] = nodes[disp[d].g].now_playing

\* C6: within one guild the Play commands go out in the order in which the tracks
\* were enqueued (tracks are numbered in enqueue order): no Play is followed by the
\* Play of a track enqueued earlier.
C6_PlayFifo ==
    [][\A g \in Guilds :
          (played[g] # NoTrack /\ played'[g] # NoTrack) => played'[g][1] >= played[g][1]
      ]_vars

\* the Play of track 1 has gone out and the Play of track 2 is about to
C6_Witness ==
    \E d \in Dispatchers :
        /\ disp[d].pc = "t_send" /\ disp[d].track = Some(2)
        /\ played[disp[d].g] = Some(1)

\* C7: skip() on a node that is present and not held sets now_playing to None and
\* removes and returns exactly the head of the queue (nothing for an empty queue),
\* leaving the rest in order; the next dispatcher tick on the idle node sets
\* now_playing to the new head and takes it for its Play.
C7_SkipHead ==
    [][\A c \in Callers :
          /\ \A g \in Guilds :
                (nodes[g].present /\ guard[g] = Free /\ Skip(c, g))
                    => /\ nodes'[g] = [nodes[g] EXCEPT
                                         !.now_playing = NoTrack,
                                         !.queue = IF @ = <<>> THEN <<>> ELSE Tail(@)]
                       /\ pc'[c] = "s_ret"
                       /\ lv'[c].val = IF nodes[g].queue = <<>> THEN NoTrack
                                       ELSE Some(Head(nodes[g].queue))
          /\ SkipReturn(c)
                => /\ last'.op = "skip" /\ last'.val = lv[c].val
                   /\ last'.res = (IF lv[c].val = NoTrack THEN "None" ELSE "Some")
                   /\ nodes' = nodes
          /\ \A d \in Dispatchers :
                (/\ disp[d].pc = "t_try"
                 /\ nodes[disp[d].g].present /\ guard[disp[d].g] = Free
                 /\ nodes[disp[d].g].now_playing = NoTrack
                 /\ nodes[disp[d].g].queue # <<>>
                 /\ DispatcherTick(d))
                    => /\ nodes'[disp[d].g].now_playing = Some(Head(nodes[disp[d].g].queue))
                       /\ disp'[d].track = Some(Head(nodes[disp[d].g].queue))
                       /\ disp'[d].pc = "t_held"
      ]_vars

\* skip() has just returned track 1 out of the queue [1, 2]
C7_Witness ==
    /\ last.op = "skip" /\ last.res = "Some" /\ last.val = Some(1)
    /\ nodes[last.g].queue = <<2>>
    /\ nodes[last.g].now_playing = NoTrack

\* skip() can always take its step once it has the client lock
SkipNeverWaitsForNode ==
    \A c \in Callers, g \in Guilds :
        (pc[c] = "idle" /\ "skip" \in Commands(c) /\ mutex = Free) => ENABLED Skip(c, g)

\* C8: skip() never waits for the node: when the node of g is absent or held by
\* another task, skip() returns None at once and leaves the nodes (now_playing and
\* the queue), the Active-Loop Set and the guards as they were.
C8_SkipContended ==
    /\ []SkipNeverWaitsForNode
    /\ [][\A c \in Callers, g \in Guilds :
             (Skip(c, g) /\ (guard[g] # Free \/ ~nodes[g].present))
                 => /\ last'.op = "skip" /\ last'.res = "None" /\ last'.val = NoTrack
                    /\ pc'[c] = "idle"
                    /\ UNCHANGED <<nodes, loops, guard, mutex, disp>>
         ]_vars

\* skip() has just returned None because another task held a node with a queue
C8_Witness ==
    /\ last.op = "skip" /\ last.res = "None" /\ last.try = "Locked"
    /\ guard[last.g] # Free
    /\ nodes[last.g].present /\ nodes[last.g].queue # <<>>

DestroyRunning(c) == pc[c] \in {"d_node", "d_held", "d_send"}

C10_SessionHasNode ==
    (last.op \in Variants /\ last.res = "Ok") => nodes[last.g].present

\* C11: when the Play of a dispatcher round could not be sent (send error or no
\* sender), the next round of that dispatcher takes the same queue head again for a
\* new Play, whenever it finds the node present and unheld with that head still
\* first in the queue.
C11_RetryAfterFailedSend ==
    [][\A d \in Dispatchers :
          (/\ DispatcherTick(d)
           /\ disp[d].failed # NoTrack
           /\ nodes[disp[d].g].present /\ guard[disp[d].g] = Free
           /\ nodes[disp[d].g].queue # <<>>
           /\ Some(Head(nodes[disp[d].g].queue)) = disp[d].failed)
              => disp'[d].track = disp[d].failed
      ]_vars

\* C15: once the node of g is gone from the Node Registry, a dispatcher of g ends
\* (under fair scheduling) unless the node is inserted again; the round that finds
\* the entry absent ends the task without taking a track, and an ended dispatcher
\* sends no Play.
C15_EndsAfterRemoval ==
    /\ \A d \in Dispatchers :
          (Alive(d) /\ ~nodes[disp[d].g].present)
              ~> (~Alive(d) \/ nodes[disp[d].g].present)
    /\ [][/\ \A d \in Dispatchers :
               (DispatcherTick(d) /\ ~nodes[disp[d].g].present)
                   => /\ disp'[d].pc = "dead" /\ disp'[d].track = NoTrack
                      /\ nodes' = nodes
          /\ played' # played
               => \E d \in Dispatchers : Alive(d) /\ disp[d].pc = "t_send"
         ]_vars

\* a dispatcher of g has ended after the node of g was removed, having played before
C15_Witness ==
    \E d \in Dispatchers :
        /\ disp[d].pc = "dead"
        /\ ~nodes[disp[d].g].present
        /\ played[disp[d].g] # NoTrack

\* the node of g has a queue whose head is not the track of the last Play
HeadNotPlayed(g) ==
    /\ nodes[g].present
    /\ nodes[g].queue # <<>>
    /\ played[g] # Some(Head(nodes[g].queue))

\* C12: if the connection is lost while the queue of g holds an unplayed head and a
\* dispatcher of g is alive, then whenever the sender is attached again a Play for
\* the head of the queue is eventually transmitted (under fair scheduling), unless
\* the connection is lost again, the node is removed, the queue runs empty or the
\* dispatcher ends.
C12_PlayAfterReconnect ==
    \A g \in Guilds :
        []((~sender /\ HeadNotPlayed(g) /\ AliveFor(g) # {})
              => [](sender => <>(\/ ~HeadNotPlayed(g)
                                 \/ ~sender
                                 \/ AliveFor(g) = {})))

InQueue(g, i) ==
    \E k \in 1..Len(nodes[g].queue) : nodes[g].queue[k] = i

\* C13: every track that queue() has put into the queue of g is eventually played
\* (under fair scheduling, every played track ending in time), unless the node is
\* removed, the connection is lost or the track is taken out of the queue unplayed.
C13_EnqueuedIsPlayed ==
    \A g \in Guilds, i \in 1..MaxItems :
        (nodes[g].present /\ InQueue(g, i) /\ sender)
            ~> (\/ played[g] = Some(i)
                \/ ~nodes[g].present
                \/ ~InQueue(g, i)
                \/ ~sender)

\* C14: a dispatcher ends only in a round that finds no entry for its guild in the
\* Node Registry; it never ends while the node is in the registry, held or not.
C14_EndsOnlyWhenAbsent ==
    [][\A d \in Dispatchers :
          (Alive(d) /\ disp'[d].pc = "dead") => ~nodes[disp[d].g].present
      ]_vars

Refused(c) ==
    /\ pc'[c] = "idle"
    /\ last'.task = c
    /\ last'.res = "MissingLavalinkSocket"
    /\ last'.sent = ""

\* C16: while no sender is attached, each command (start, stop, seek, volume, the
\* equalizer calls, pause and resume, destroy, create_session with valid input)
\* returns MissingLavalinkSocket and transmits nothing.
C16_NoSocketRefuses ==
    [][\A c \in Callers, g \in Guilds :
          ~sender =>
            /\ Start(c, g) => Refused(c)
            /\ \A op \in SendOps : Command(c, g, op) => Refused(c)
            /\ Destroy(c, g) => Refused(c)
            /\ \A v \in Variants : CreateSession(c, g, v, TRUE) => Refused(c)
            /\ (SetPauseNode(c) \/ SetPauseRelease(c)) => pc'[c] # "idle"
            /\ SetPauseSocket(c) => Refused(c)
      ]_vars

PauseRunning(g) ==
    \E c \in Callers : pc[c] \in {"p_held", "p_lock", "p_send"} /\ lv[c].g = g

\* C17: with no pause or resume call under way, the isPaused of the Node of g is
\* the value of the last Pause command transmitted for it (the initial value if
\* none was), whatever calls failed and whatever happened to the connection.
C17_PausedMirrorsIssued ==
    \A g \in Guilds :
        (nodes[g].present /\ ~PauseRunning(g)) => nodes[g].is_paused = wire[g].pause

\* the items of q in the order in which queue() numbered them, none twice
InsertionOrder(q) ==
    \A j, k \in 1..Len(q) : j < k => q[j] < q[k]

\* q2 is q, q with one item appended at the tail, or q without its head
TailOrHead(q, q2) ==
    \/ q2 = q
    \/ q # <<>> /\ q2 = Tail(q)
    \/ Len(q2) = Len(q) + 1 /\ SubSeq(q2, 1, Len(q)) = q

\* C18: before and after every step the queue of each guild is in insertion order,
\* and every step leaves it as it is, appends one item at its tail or removes the
\* item at its head, unless it is no step of queue(), skip(), destroy(), a
\* dispatcher or the Reactor.
C18_InsertionOrder ==
    [][\A g \in Guilds :
          /\ InsertionOrder(nodes[g].queue) /\ InsertionOrder(nodes'[g].queue)
          /\ \/ TailOrHead(nodes[g].queue, nodes'[g].queue)
             \/ ~(\/ \E c \in Callers : QueueCall(c) \/ SkipCall(c) \/ DestroyCall(c)
                  \/ DispatcherStep
                  \/ ReactorStep)
      ]_vars

\* two items were enqueued behind a head that has since been removed
C18_Witness ==
    \E g \in Guilds : nodes[g].queue = <<2, 3>>

\* the task holds the client mutex or the guard of a Node Registry entry
Holds(id) ==
    mutex = id \/ \E g \in Guilds : guard[g] = id

\* the positions in which a call awaits its socket send
AwaitingSend == {"cs_send", "d_send", "c_send", "p_send", "st_send"}

\* C19: no call that awaits its socket send, and no dispatcher that awaits its
\* send or sleeps, holds the client mutex or the guard of a registry entry.
C19_NoLockAcrossAwait ==
    /\ \A c \in Callers : pc[c] \in AwaitingSend => ~Holds(CallerId(c))
    /\ \A d \in Dispatchers : disp[d].pc \in {"t_send", "t_nodes"} => ~Holds(DispId(d))

\* C20: once destroy(g) has returned Ok, and as long as queue() has accepted no
\* item for g since destroy cleared the session and the owner has not removed the
\* entry of g, no round of a dispatcher of g takes a track to play, whatever the
\* queue held when destroy was called.
C20_IdleAfterDestroy ==
    [][\A d \in Dispatchers :
          (/\ DispatcherTick(d)
           /\ wire[disp[d].g].destroyed
           /\ \A c \in Callers : DestroyRunning(c) => lv[c].g # disp[d].g)
             => disp'[d].track = NoTrack
      ]_vars

BandsInOrder(bands, gains) ==
    /\ Len(bands) = BandCount
    /\ \A i \in 1..BandCount : bands[i] = [band |-> i - 1, gain |-> gains[i]]

EndTimeOf(finish) == IF finish = 0 THEN <<>> ELSE <<finish>>

TickFrame(g) ==
    /\ nodes'[g].present = nodes[g].present
    /\ nodes'[g].queue = nodes[g].queue
    /\ nodes'[g].is_paused = nodes[g].is_paused
    /\ nodes'[g].is_on_loops = nodes[g].is_on_loops
    /\ loops' = loops
    /\ nodes'[g].now_playing # nodes[g].now_playing
          => /\ nodes[g].queue # <<>>
             /\ nodes'[g].now_playing = Some(Head(nodes[g].queue))

\* the step removes the head of the queue of g and keeps the rest
HeadRemoved(g) ==
    /\ nodes[g].present /\ nodes'[g].present
    /\ nodes[g].queue # <<>>
    /\ nodes'[g].queue = Tail(nodes[g].queue)

\* C24: a step of a dispatcher never changes a queue, is_paused, is_on_loops or the
\* Active-Loop Set, and sets now_playing to nothing but the head of the queue; the
\* head of the queue of a node that stays in the registry is removed only by a step
\* of skip(), of destroy() or of the Reactor.
C24_TickKeepsQueue ==
    [][\A g \in Guilds :
          /\ TickFrame(g) \/ ~DispatcherStep
          /\ ~HeadRemoved(g)
               \/ \E c \in Callers : SkipCall(c) \/ DestroyCall(c)
               \/ ReactorStep
      ]_vars

\* C25: a create_session that returns Ok for a guild that has a Node leaves the
\* queue, now_playing, is_paused and is_on_loops of that Node as they are.
C25_SessionKeepsNode ==
    [][\A c \in Callers :
          (CreateSessionNode(c) /\ nodes[lv[c].g].present)
            => nodes'[lv[c].g] = nodes[lv[c].g]
      ]_vars

\* C26: a TrackEnd, TrackException or TrackStuck event for g leaves now_playing of
\* the Node of g at None and changes nothing when g has no Node; the first round of
\* a dispatcher of g after it takes the head of the queue to play, if there is one.
C26_TickAfterTrackEvent ==
    [][/\ \A g \in Guilds, finished \in BOOLEAN :
            ReactorTrackEvent(g, finished)
              => /\ nodes'[g].present = nodes[g].present
                 /\ nodes[g].present => nodes'[g].now_playing = NoTrack
                 /\ ~nodes[g].present => nodes' = nodes
       /\ \A d \in Dispatchers :
            (/\ DispatcherTick(d)
             /\ wire[disp[d].g].cleared
             /\ nodes[disp[d].g].present
             /\ nodes[disp[d].g].now_playing = NoTrack
             /\ nodes[disp[d].g].queue # <<>>)
              => disp'[d].track = Some(Head(nodes[disp[d].g].queue))
      ]_vars

\* C27: pause(g) or resume(g) for a guild that has no Node returns NoSessionPresent,
\* transmits nothing and changes neither the registry nor the Active-Loop Set.
C27_PauseNeedsSession ==
    [][\A c \in Callers :
          (SetPauseNode(c) /\ ~nodes[lv[c].g].present)
            => /\ pc'[c] = "idle"
               /\ last'.res = "NoSessionPresent"
               /\ last'.sent = ""
               /\ nodes' = nodes /\ loops' = loops /\ wire' = wire
      ]_vars

\* the track that is playing for g, if any, is the head of the queue of g
PlayingIsHead(n) ==
    n.now_playing # NoTrack => n.queue # <<>> /\ n.now_playing = Some(Head(n.queue))

\* C28: whenever now_playing of g is Some(x) the queue of g is non-empty and x is its
\* head: a step that removes the head leaves now_playing at None, and a step that
\* sets now_playing sets it to the head.
C28_PlayingIsHead ==
    [][\A g \in Guilds :
          /\ PlayingIsHead(nodes[g]) /\ PlayingIsHead(nodes'[g])
          /\ HeadRemoved(g) => nodes'[g].now_playing = NoTrack
          /\ (nodes'[g].now_playing # NoTrack /\ nodes'[g].now_playing # nodes[g].now_playing)
                => /\ nodes'[g].queue = nodes[g].queue
                   /\ \E d \in Dispatchers : DispatcherTick(d)
      ]_vars

\* the second track plays at the head of a queue of two
C28_Witness ==
    \E g \in Guilds :
        /\ nodes[g].now_playing = Some(2)
        /\ nodes[g].queue = <<2, 3>>
        /\ played[g] = Some(2)

\* ------------------------------------------------ waiting
Tasks == {CallerId(c) : c \in Callers} \cup {DispId(d) : d \in Dispatchers}

\* the rest of a call that has started
CallContinues(c) ==
    \/ CallInProgress(c)
    \/ StartSend(c)
    \/ SetPauseNode(c) \/ SetPauseRelease(c) \/ SetPauseSocket(c) \/ SetPauseSend(c)

\* a task that has started and cannot take its next step: it waits in lock(), in
\* get_mut() or in insert() for a guard that another task holds
Blocked(id) ==
    \/ \E c \in Callers : id = CallerId(c) /\ pc[c] # "idle" /\ ~ENABLED CallContinues(c)
    \/ \E d \in Dispatchers : id = DispId(d) /\ Alive(d) /\ ~ENABLED DispatcherRound(d)

\* the task that holds what the blocked task id waits for
WaitsFor(id) ==
    IF \E c \in Callers : id = CallerId(c) /\ mutex = id
    THEN {guard[g] : g \in Guilds} \ {Free, id}
    ELSE ({mutex} \cup {guard[g] : g \in Guilds}) \ {Free, id}

PlayTransmitted(d) ==
    disp[d].pc = "t_send" /\ disp'[d].pc # "t_send" /\ last'.sent = "Play"

\* C30: every Play that a dispatcher transmits carries the item that is the head of
\* the queue of its guild, and its now_playing, at the moment of the transmission:
\* no Play is transmitted for an item that skip() or destroy() has removed.
C30_PlayIsHead ==
    [][\A d \in Dispatchers :
          PlayTransmitted(d)
            => LET n == nodes[disp[d].g]
               IN /\ n.present
                  /\ n.queue # <<>>
                  /\ Some(Head(n.queue)) = disp[d].track
                  /\ n.now_playing = disp[d].track
                  /\ last'.payload.track = Head(n.queue)
      ]_vars

\* C31: queue() for g returns NoSessionPresent only when the Node Registry has no
\* entry for g at the time of the call; while g has a Node, held by another task or
\* not, the call does not fail: it goes on to append its track.
C31_NoSessionOnlyWhenAbsent ==
    [][\A c \in Callers, g \in Guilds :
          \/ ~(pc[c] = "idle" /\ Queue(c, g))
          \/ /\ (last'.res = "NoSessionPresent" => ~nodes[g].present)
              /\ (nodes[g].present
                    => /\ last'.res = ""
                       /\ pc'[c] \in {"q_ret", "q_flag", "q_wait"}
                       /\ lv'[c].item = nextItem)
      ]_vars

\* the failures of a call that reaches for the connection: no socket_sender, a
\* connection field that is None, a send that fails
ConnectionFailures == {"MissingLavalinkSocket", "MissingConnectionField", "SendError"}

\* the call of c returns in this step with one of these failures
ReturnsFailure(c) ==
    /\ pc'[c] = "idle"
    /\ last'.task = c
    /\ last'.op \in {"destroy", "set_pause"} \cup Variants
    /\ last'.res \in ConnectionFailures

\* C32: when destroy(), pause()/resume() or create_session returns a failure of the
\* connection, no step of that call has changed the Node of its guild (existence,
\* now_playing, queue, is_paused, is_on_loops) or the Active-Loop Set.
C32_FailureKeepsNode ==
    [][\A c \in Callers :
          ReturnsFailure(c)
            => /\ ~lv[c].touched
               /\ nodes' = nodes
               /\ loops' = loops
      ]_vars

====
